---- MODULE Spec2Model ----
(***************************************************************************)
(* Model of telegram_sender.core.TelegramSender: one run() of the sender   *)
(* over a recipient list.  The generator of batches, the concurrent        *)
(* dispatch of one batch, the rate-limit pause, the single retry cycle and *)
(* the pacing sleep are translated from src/telegram_sender/core.py.       *)
(*                                                                         *)
(* Time is counted in ticks.  `elapsed` is time.monotonic() minus          *)
(* batch_start_time, saturated at ElapsedCap; `timer` is what is left of   *)
(* the asyncio.sleep() the main coroutine is suspended in.                 *)
(*                                                                         *)
(* The coroutines of one batch run on one event loop.  A send is in flight *)
(* from the moment asyncio.as_completed() schedules it until its response  *)
(* (or exception) arrives; everything _send_message does after its last    *)
(* await, and the loop body of _process_batch_messages that consumes the   *)
(* result, touch disjoint data and are taken as one step.                  *)
(***************************************************************************)
EXTENDS Integers, Sequences, FiniteSets, TLC

\* ---------------------------------------------------------------- bounds
MaxRecipients == 3
MaxBatchSize == 2
MaxRetryAfter == 2

\* delay_between_batches, in ticks (constructor parameter)
delay_between_batches == 2

\* elapsed saturates here: beyond delay_between_batches the pacing sleep is 0
ElapsedCap == delay_between_batches + 1

\* the i-th recipient of the run's list
ChatId(i) == 100 + i

BatchSizes == 0..MaxBatchSize

\* inputs of the planner-only specification
MaxPlanRecipients == 5
MaxPlanBatchSize == 3
PlanChatIds == {7, 8, 9}
RetryAfters == 0..MaxRetryAfter

VARIABLES
    chat_ids,               \* run(chat_ids, ...): the recipient list
    batch_size,             \* self._batch_size
    use_mongo,              \* self._use_mongo
    run_no,                 \* how many times run() was called on the sender
    data,                   \* run: data = self._prepare_data(...), the payload
    data0,                  \* the payload as _prepare_data returned it
    rate_limited_messages,  \* self._rate_limited_messages
    global_retry_after,     \* self._global_retry_after
    gen_pos,                \* _create_send_batches: index of the next chat_id
    batch,                  \* _execute_batches: the batch being processed
    batch_index,            \* _execute_batches: batch_index
    total_delivered,        \* _execute_batches: total_delivered
    total_not_delivered,    \* _execute_batches: total_not_delivered
    sleep_time,             \* _execute_batches: sleep_time
    delivered,              \* _process_batch_messages: delivered
    non_429_failures,       \* _process_batch_messages: non_429_failures
    inflight,               \* the _send_message tasks that are awaiting
    pc,                     \* where the main coroutine is suspended
    timer,                  \* remaining time of the current asyncio.sleep
    elapsed,                \* time.monotonic() - batch_start_time
    result,                 \* what run() returned, <<>> before it returns
    \* history of the run, read by the properties only
    yielded,                \* the batches the generator has yielded
    sends,                  \* per position: how many times it was sent
    outcomes,               \* per position: API outcome of each attempt
    counted_d,              \* per position: added to a delivered counter
    counted_nd,             \* per position: added to a failure counter
    own_rl,                 \* positions rate-limited in this batch's dispatch
    own_max,                \* max retry_after among those responses
    pauses,                 \* durations of the pauses of this batch
    retried,                \* requests re-sent in this batch's retry cycle
    gaps                    \* time between consecutive batch starts, each
                            \* cut at delay_between_batches

cfg == <<chat_ids, batch_size, use_mongo, run_no, data0>>
prog == <<rate_limited_messages, global_retry_after, gen_pos, batch,
          batch_index, total_delivered, total_not_delivered, sleep_time,
          delivered, non_429_failures, inflight, pc, timer, elapsed, result>>
hist == <<yielded, sends, outcomes, counted_d, counted_nd,
          own_rl, own_max, pauses, retried, gaps>>
vars == <<cfg, data, prog, hist>>

\* ---------------------------------------------------------------- helpers
Max(a, b) == IF a >= b THEN a ELSE b

Min(a, b) == IF a <= b THEN a ELSE b

Range(s) == {s[i] : i \in 1..Len(s)}

Positions == 1..Len(chat_ids)

RECURSIVE SumOver(_, _)
SumOver(f, S) ==
    IF S = {} THEN 0
    ELSE LET x == CHOOSE y \in S : TRUE IN f[x] + SumOver(f, S \ {x})

RECURSIVE Flatten(_)
Flatten(bs) == IF bs = <<>> THEN <<>> ELSE Head(bs) \o Flatten(Tail(bs))

\* The payload of a text message, as _prepare_data builds it.
Payload == [k \in {"text", "parse_mode"} |->
               IF k = "text" THEN "hello" ELSE "HTML"]

\* data_with_id = data.copy(); data_with_id["chat_id"] = chat_id: the dict
\* holds the payload's fields and the chat_id.  run and pos stand for the
\* identity of the dict object built for that position of that run.
Request(i) == [run |-> run_no, pos |-> i, chat_id |-> chat_ids[i],
               payload |-> data]

\* mutation: the chat_id is written into the shared dict (no copy)
DataAfterAlias(d, c) ==
    [k \in DOMAIN d \cup {"chat_id"} |-> IF k = "chat_id" THEN c ELSE d[k]]

\* `data` after data.copy() and the assignment to the copy: untouched
DataAfterCopy(d, c) == d

\* The task that as_completed() makes of a coroutine of batch number k
\* (retry: the coroutine was made by _resend_rate_limited_messages).
Task(req, k, retry) == [req |-> req, batch |-> k, retry |-> retry]

\* ------------------------------------------------- _create_send_batches
\* mutation: the batch is yielded one request late
BatchFullLate(b) == Len(b) > batch_size

\* if len(batch) >= self._batch_size
BatchFull(b) == Len(b) >= batch_size

\* The body of the generator resumed with local `batch` = b at chat_ids[i]:
\* runs to the next yield, or to the end of the generator (stop).
RECURSIVE CreateSendBatches(_, _)
CreateSendBatches(b, i) ==
    IF i > Len(chat_ids)
    THEN [batch |-> b, pos |-> i, stop |-> (b = <<>>)]
    ELSE LET b2 == Append(b, Request(i))
         IN  IF BatchFull(b2)
             THEN [batch |-> b2, pos |-> i + 1, stop |-> FALSE]
             ELSE CreateSendBatches(b2, i + 1)

\* --------------------------------------------------------- _send_message
\* What the API answered (or "exc": post()/json() raised).
Responses == {[kind |-> "ok", retry_after |-> 0],
              [kind |-> "fail", retry_after |-> 0],
              [kind |-> "exc", retry_after |-> 0]}
             \cup {[kind |-> "429", retry_after |-> r] : r \in RetryAfters}

\* The DeliveryOutcome class of an API answer.
OutcomeOf(resp) ==
    CASE resp.kind = "ok" -> "Delivered"
      [] resp.kind = "429" -> "RateLimited"
      [] OTHER -> "PermanentFailure"

\* The exception handler is entered when the request raises, or when
\* insert_one raises (it is awaited inside the same try block).
SendRaises(resp, sink_fails) == resp.kind = "exc" \/ (use_mongo /\ sink_fails)

\* mutation: only the request is inside the try block
CaughtRequestOnly(resp, sink_fails) == resp.kind = "exc"

\* `except Exception` encloses the request and the sink write: whatever
\* either of them raises is caught inside _send_message.
Caught(resp, sink_fails) == TRUE

\* (is_success, is_429) returned by _send_message.
SendMessageResult(resp, sink_fails) ==
    IF SendRaises(resp, sink_fails) THEN <<FALSE, FALSE>>
    ELSE IF resp.kind = "ok" THEN <<TRUE, FALSE>>
    ELSE IF resp.kind = "429" THEN <<FALSE, TRUE>>
    ELSE <<FALSE, FALSE>>

\* --------------------------------------------------------------- pacing
\* mutation: the pacing sleep is not clamped at 0
SleepTimeUnclamped(el) == delay_between_batches - el

\* max(batch_start_time + delay_between_batches - time.monotonic(), 0.0)
SleepTime(el) == Max(delay_between_batches - el, 0)

\* mutation: the loop over as_completed stops one task short
DispatchAlmostResolved == Cardinality(inflight) <= 1

\* _process_batch_messages returns when as_completed has yielded every task
DispatchResolved == inflight = {}

\* mutation: the list is not cleared after the retry cycle
PendingKeptAfterResend == rate_limited_messages

\* self._rate_limited_messages after the retry cycle (second clear())
PendingAfterResend == <<>>

\* ----------------------------------------------------------------- Init
\* TelegramSender.__init__ and the entry of run(): the fields and the locals
\* of _execute_batches before the first batch is asked for.
FreshRun ==
    /\ run_no = 1
    /\ data = Payload
    /\ data0 = Payload
    /\ rate_limited_messages = <<>>
    /\ global_retry_after = 0
    /\ gen_pos = 1
    /\ batch = <<>>
    /\ batch_index = 0
    /\ total_delivered = 0
    /\ total_not_delivered = 0
    /\ sleep_time = 0
    /\ delivered = 0
    /\ non_429_failures = 0
    /\ inflight = {}
    /\ pc = "loop"
    /\ timer = 0
    /\ elapsed = 0
    /\ result = <<>>
    /\ yielded = <<>>
    /\ sends = [i \in Positions |-> 0]
    /\ outcomes = [i \in Positions |-> <<>>]
    /\ counted_d = [i \in Positions |-> 0]
    /\ counted_nd = [i \in Positions |-> 0]
    /\ own_rl = {}
    /\ own_max = 0
    /\ pauses = <<>>
    /\ retried = {}
    /\ gaps = <<>>

Init ==
    /\ chat_ids \in {[i \in 1..n |-> ChatId(i)] : n \in 0..MaxRecipients}
    /\ batch_size \in BatchSizes
    /\ use_mongo \in BOOLEAN
    /\ FreshRun

\* The planner alone, over longer lists with repeated recipients
InitPlanner ==
    /\ chat_ids \in UNION {[1..n -> PlanChatIds] : n \in 0..MaxPlanRecipients}
    /\ batch_size \in (-1)..MaxPlanBatchSize
    /\ use_mongo = FALSE
    /\ FreshRun

\* -------------------------------------------------------------- actions
\* for batch_index, batch in enumerate(batches, start=1): the generator
\* yields the next batch; if sleep_time > 0: await asyncio.sleep(sleep_time)
NextBatch ==
    /\ pc = "loop"
    /\ LET g == CreateSendBatches(<<>>, gen_pos)
       IN  /\ ~g.stop
           /\ batch' = g.batch
           /\ gen_pos' = g.pos
           /\ data' = DataAfterCopy(data, g.batch[Len(g.batch)].chat_id)
           /\ yielded' = Append(yielded, g.batch)
    /\ batch_index' = batch_index + 1
    /\ timer' = IF sleep_time > 0 THEN sleep_time ELSE 0
    /\ pc' = "sleep"
    /\ UNCHANGED <<cfg, rate_limited_messages, global_retry_after,
                   total_delivered, total_not_delivered, sleep_time,
                   delivered, non_429_failures, inflight, elapsed, result,
                   sends, outcomes, counted_d, counted_nd,
                   own_rl, own_max, pauses, retried, gaps>>

\* The generator is exhausted: return total_delivered, total_not_delivered
ReturnTally ==
    /\ pc = "loop"
    /\ CreateSendBatches(<<>>, gen_pos).stop
    /\ result' = <<total_delivered, total_not_delivered>>
    /\ pc' = "done"
    /\ UNCHANGED <<cfg, data, rate_limited_messages, global_retry_after, gen_pos,
                   batch, batch_index, total_delivered, total_not_delivered,
                   sleep_time, delivered, non_429_failures, inflight, timer,
                   elapsed, hist>>

\* batch_start_time = time.monotonic(); _process_batch_messages(batch):
\* delivered, non_429_failures = 0, 0; as_completed schedules every send
StartBatch ==
    /\ pc = "sleep"
    /\ timer = 0
    /\ gaps' = IF batch_index >= 2
                THEN Append(gaps, Min(elapsed, delay_between_batches))
                ELSE gaps
    /\ elapsed' = 0
    /\ delivered' = 0
    /\ non_429_failures' = 0
    /\ inflight' = inflight \cup {Task(r, batch_index, FALSE) : r \in Range(batch)}
    /\ sends' = [i \in Positions |->
                    IF Request(i) \in Range(batch) THEN sends[i] + 1
                    ELSE sends[i]]
    /\ own_rl' = {}
    /\ own_max' = 0
    /\ pauses' = <<>>
    /\ retried' = {}
    /\ pc' = "dispatch"
    /\ UNCHANGED <<cfg, data, rate_limited_messages, global_retry_after, gen_pos,
                   batch, batch_index, total_delivered, total_not_delivered,
                   sleep_time, timer, result, yielded, outcomes,
                   counted_d, counted_nd>>

\* One tick of the clock while the event loop is waiting for something.
Tick ==
    /\ inflight # {} \/ timer > 0
    /\ elapsed' = Min(elapsed + 1, ElapsedCap)
    /\ timer' = Max(timer - 1, 0)
    /\ UNCHANGED <<cfg, data, rate_limited_messages, global_retry_after, gen_pos,
                   batch, batch_index, total_delivered, total_not_delivered,
                   sleep_time, delivered, non_429_failures, inflight, pc,
                   result, hist>>

\* The _process_batch_messages call that scheduled task t is still iterating
\* over as_completed, so it will be handed the task's result.
Awaited(t) ==
    /\ t.batch = batch_index
    /\ pc = (IF t.retry THEN "retry" ELSE "dispatch")

\* After run() was cancelled the ClientSession is closed (async with), so a
\* task still waiting for its response gets an exception; a task that has
\* its response and is waiting for insert_one goes on with that response.
OrphanCanAnswer(resp) == resp.kind = "exc" \/ use_mongo

\* One _send_message task gets its answer and returns; the as_completed
\* loop of _process_batch_messages counts the result.
SendMessage(t, resp, sink_fails) ==
    /\ t \in inflight
    /\ sink_fails => (use_mongo /\ resp.kind # "exc")
    /\ pc = "cancelled" => OrphanCanAnswer(resp)
    /\ LET res == SendMessageResult(resp, sink_fails)
           escapes == SendRaises(resp, sink_fails) /\ ~Caught(resp, sink_fails)
           is_success == Awaited(t) /\ ~escapes /\ res[1]
           is_429 == ~escapes /\ res[2]
           is_failure == Awaited(t) /\ ~escapes /\ ~res[1] /\ ~res[2]
           req == t.req
           i == req.pos
           own == req.run = run_no
       IN  /\ inflight' = inflight \ {t}
           /\ pc' = IF escapes /\ Awaited(t) THEN "raised" ELSE pc
           /\ IF is_429
              THEN /\ rate_limited_messages' = Append(rate_limited_messages, req)
                   /\ global_retry_after' = Max(global_retry_after, resp.retry_after)
              ELSE UNCHANGED <<rate_limited_messages, global_retry_after>>
           /\ delivered' = IF is_success THEN delivered + 1 ELSE delivered
           /\ non_429_failures' = IF is_failure
                                  THEN non_429_failures + 1
                                  ELSE non_429_failures
           /\ counted_d' = IF is_success /\ own
                           THEN [counted_d EXCEPT ![i] = @ + 1] ELSE counted_d
           /\ counted_nd' = IF is_failure /\ own
                            THEN [counted_nd EXCEPT ![i] = @ + 1] ELSE counted_nd
           /\ outcomes' = IF own
                          THEN [outcomes EXCEPT ![i] = Append(@, OutcomeOf(resp))]
                          ELSE outcomes
           /\ IF own /\ ~t.retry /\ t.batch = batch_index /\ resp.kind = "429"
              THEN /\ own_rl' = own_rl \cup {i}
                   /\ own_max' = Max(own_max, resp.retry_after)
              ELSE UNCHANGED <<own_rl, own_max>>
    /\ UNCHANGED <<cfg, data, gen_pos, batch, batch_index, total_delivered,
                   total_not_delivered, sleep_time, timer, elapsed,
                   result, yielded, sends, pauses, retried, gaps>>

\* d, nd = await self._process_batch_messages(batch); totals += d, nd;
\* if self._global_retry_after > 0: await asyncio.sleep(...)
\* else: sleep_time = max(batch_start_time + delay - now, 0.0)
FinishDispatch ==
    /\ pc = "dispatch"
    /\ DispatchResolved
    /\ total_delivered' = total_delivered + delivered
    /\ total_not_delivered' = total_not_delivered + non_429_failures
    /\ IF global_retry_after > 0
       THEN /\ timer' = global_retry_after
            /\ pauses' = Append(pauses, global_retry_after)
            /\ pc' = "pause"
            /\ UNCHANGED sleep_time
       ELSE /\ sleep_time' = SleepTime(elapsed)
            /\ pc' = "loop"
            /\ UNCHANGED <<timer, pauses>>
    /\ UNCHANGED <<cfg, data, rate_limited_messages, global_retry_after, gen_pos,
                   batch, batch_index, delivered, non_429_failures, inflight,
                   elapsed, result, yielded, sends, outcomes,
                   counted_d, counted_nd, own_rl, own_max, retried, gaps>>

\* The pause is over: self._global_retry_after = 0.0, then
\* _resend_rate_limited_messages() up to its await: nothing to do when the
\* list is empty, else msgs_to_retry = copy, clear(), schedule the sends.
StartResend ==
    /\ pc = "pause"
    /\ timer = 0
    /\ global_retry_after' = 0
    /\ IF rate_limited_messages = <<>>
       THEN /\ sleep_time' = SleepTime(elapsed)
            /\ pc' = "loop"
            /\ UNCHANGED <<rate_limited_messages, inflight, delivered,
                           non_429_failures, sends, retried>>
       ELSE /\ rate_limited_messages' = <<>>
            /\ inflight' = inflight \cup {Task(r, batch_index, TRUE) :
                                             r \in Range(rate_limited_messages)}
            /\ delivered' = 0
            /\ non_429_failures' = 0
            /\ sends' = [i \in Positions |->
                            IF Request(i) \in Range(rate_limited_messages)
                            THEN sends[i] + 1 ELSE sends[i]]
            /\ retried' = Range(rate_limited_messages)
            /\ pc' = "retry"
            /\ UNCHANGED sleep_time
    /\ UNCHANGED <<cfg, data, gen_pos, batch, batch_index, total_delivered,
                   total_not_delivered, timer, elapsed, result, yielded,
                   outcomes, counted_d, counted_nd, own_rl,
                   own_max, pauses, gaps>>

\* The retry sends are resolved: second_429_count = len(pending);
\* not_delivered = non_429_failures + second_429_count; clear();
\* totals += d2, nd2; sleep_time = max(...)
FinishResend ==
    /\ pc = "retry"
    /\ DispatchResolved
    /\ LET second_429_count == Len(rate_limited_messages)
           not_delivered == non_429_failures + second_429_count
       IN  /\ total_delivered' = total_delivered + delivered
           /\ total_not_delivered' = total_not_delivered + not_delivered
    /\ counted_nd' = [i \in Positions |->
          counted_nd[i] + Cardinality({k \in 1..Len(rate_limited_messages) :
                                         rate_limited_messages[k] = Request(i)})]
    /\ rate_limited_messages' = PendingAfterResend
    /\ sleep_time' = SleepTime(elapsed)
    /\ pc' = "loop"
    /\ UNCHANGED <<cfg, data, global_retry_after, gen_pos, batch, batch_index,
                   delivered, non_429_failures, inflight, timer, elapsed,
                   result, yielded, sends, outcomes, counted_d,
                   own_rl, own_max, pauses, retried, gaps>>

Next ==
    \/ NextBatch
    \/ ReturnTally
    \/ StartBatch
    \/ Tick
    \/ \E t \in inflight, resp \in Responses, sink_fails \in BOOLEAN :
          SendMessage(t, resp, sink_fails)
    \/ FinishDispatch
    \/ StartResend
    \/ FinishResend

Spec == Init /\ [][Next]_vars

\* The for loop of _execute_batches seen from the generator: the body of the
\* loop never touches the generator, so it is reduced to taking the batch.
ConsumeBatch ==
    /\ pc = "sleep"
    /\ pc' = "loop"
    /\ UNCHANGED <<cfg, data, rate_limited_messages, global_retry_after, gen_pos,
                   batch, batch_index, total_delivered, total_not_delivered,
                   sleep_time, delivered, non_429_failures, inflight, timer,
                   elapsed, result, hist>>

NextPlanner ==
    \/ NextBatch
    \/ ReturnTally
    \/ ConsumeBatch

SpecPlanner == InitPlanner /\ [][NextPlanner]_vars

TypeOK ==
    /\ pc \in {"loop", "sleep", "dispatch", "pause", "retry", "done",
              "raised", "cancelled"}
    /\ timer \in 0..Max(MaxRetryAfter, delay_between_batches)
    /\ (result # <<>> /\ run_no = 1) =>
          /\ result[1] = SumOver(counted_d, Positions)
          /\ result[2] = SumOver(counted_nd, Positions)
    /\ elapsed \in 0..ElapsedCap
    /\ \A t \in inflight : t.req \in {Request(i) : i \in Positions}
    /\ sleep_time \in Int
\* The iteration of the for loop over the current batch is complete: its
\* dispatch, and its pause and retry cycle if any, are over.
BatchComplete == pc = "loop" /\ batch_index >= 1

\* The run parameters are in their documented domain (batch_size positive).
ValidConfig == batch_size > 0

\* ======================================================================
\* C1  A run that completes returns a tally that counts every recipient
\* exactly once, whatever the outcomes (RateLimited(0) included):
\* delivered + notDelivered = n.
C1_TallyCountsAll ==
    (ValidConfig /\ pc = "done") =>
      /\ result[1] + result[2] = Len(chat_ids)
      /\ \A i \in Positions : counted_d[i] + counted_nd[i] = 1

\* ======================================================================
\* C2  A failing Audit Sink write does not change the outcome of the
\* attempt: a success response is counted as delivered, and a rate-limit
\* response to a first attempt is registered for retry.
C2_SinkFailureHarmless ==
    ValidConfig => \A i \in Positions :
      /\ (\E a \in 1..Len(outcomes[i]) : outcomes[i][a] = "Delivered")
            => counted_d[i] = 1
      /\ (/\ pc = "dispatch"
          /\ Request(i) \in Range(batch)
          /\ outcomes[i] = <<"RateLimited">>)
            => Request(i) \in Range(rate_limited_messages)

\* ======================================================================
\* C3  Single retry: no request is sent more than twice; only a request
\* whose first attempt was RateLimited is sent a second time; a request
\* whose first attempt was Delivered or PermanentFailure is sent once.
C3_SingleRetry ==
    \A i \in Positions :
      /\ sends[i] <= 2
      /\ Len(outcomes[i]) <= sends[i]
      /\ sends[i] = 2 => outcomes[i][1] = "RateLimited"
      /\ (outcomes[i] # <<>> /\ outcomes[i][1] # "RateLimited")
            => sends[i] = 1

\* a request rate-limited twice stayed at two sends while a later batch
\* went through its own retry cycle
C3_Witness ==
    /\ pc = "done"
    /\ \E i, j \in Positions :
          /\ i < j
          /\ outcomes[i] = <<"RateLimited", "RateLimited">>
          /\ outcomes[j] = <<"RateLimited", "Delivered">>
          /\ sends[i] = 2
          /\ Request(j) \in retried /\ Request(i) \notin retried

\* ======================================================================
\* C4  A recipient rate-limited on the first attempt and retried: a
\* Delivered retry adds one to delivered and nothing to notDelivered; a
\* PermanentFailure or RateLimited retry adds one to notDelivered and
\* nothing to delivered.  (Read once the retry cycle has been folded.)
C4_RetryCounted ==
    ValidConfig => \A i \in Positions :
      (Len(outcomes[i]) = 2 /\ outcomes[i][1] = "RateLimited" /\ pc # "retry")
        => IF outcomes[i][2] = "Delivered"
           THEN counted_d[i] = 1 /\ counted_nd[i] = 0
           ELSE counted_d[i] = 0 /\ counted_nd[i] = 1

\* ======================================================================
\* C5  A batch with at least one rate-limited recipient pauses once, for
\* the maximum retry-after among the RateLimited outcomes of its own
\* dispatch.  Stated for the runs that are free of the other defects: a
\* pause of zero seconds and no pause are taken as the same, and the Audit
\* Sink is switched off, so that no sink failure hides a response.
C5_OnePauseOfOwnMax ==
    (ValidConfig /\ ~use_mongo /\ BatchComplete /\ own_rl # {}) =>
      /\ Len(pauses) <= 1
      /\ (IF pauses = <<>> THEN 0 ELSE pauses[1]) = own_max

\* ======================================================================
\* C6  A batch in whose dispatch nobody was rate-limited triggers no pause
\* and no retry cycle, whatever happened in earlier batches.
C6_NoRateLimitNoPause ==
    (ValidConfig /\ BatchComplete /\ own_rl = {}) => (pauses = <<>> /\ retried = {})

\* ======================================================================
\* C7  The retry cycle of batch k re-sends exactly the requests that were
\* RateLimited in batch k's dispatch, unchanged, before batch k+1 starts.
C7_RetryExactlyOwn ==
    (ValidConfig /\ BatchComplete) => retried = {Request(i) : i \in own_rl}

\* ======================================================================
\* C9  Batches run strictly one after the other: every send in flight was
\* scheduled by the current batch (its dispatch or its retry cycle), and
\* none is in flight while the main coroutine sleeps, pauses, asks for the
\* next batch or has returned.
C9_Sequential ==
    /\ \A t \in inflight : t.batch = batch_index
    /\ inflight # {} => pc \in {"dispatch", "retry"}
    /\ \A i \in Positions :
          sends[i] > 0 => \E k \in 1..batch_index : Request(i) \in Range(yielded[k])

\* the second batch is in flight after the first batch went through a
\* pause and a retry cycle
C9_Witness ==
    /\ pc = "dispatch"
    /\ batch_index >= 2
    /\ Cardinality(inflight) >= 1
    /\ \E i \in Positions : Len(outcomes[i]) = 2

\* ======================================================================
\* C10  Consecutive batch starts are at least delay_between_batches apart;
\* the pacing sleep is measured from the batch's own start, is never
\* negative, and is zero when the batch (with its pause and retry) already
\* took delay_between_batches or more.
C10_Pacing ==
    /\ \A k \in 1..Len(gaps) : gaps[k] >= delay_between_batches
    /\ sleep_time >= 0
    /\ BatchComplete =>
          /\ sleep_time + elapsed >= delay_between_batches
          /\ elapsed >= delay_between_batches => sleep_time = 0
          /\ elapsed < delay_between_batches
                => sleep_time = delay_between_batches - elapsed

\* a batch whose pause outlasted the interval needs no pacing sleep, after
\* an earlier pair of batch starts was spaced by a pacing sleep
C10_Witness ==
    /\ BatchComplete
    /\ Len(gaps) >= 1
    /\ pauses # <<>>
    /\ elapsed > delay_between_batches
    /\ sleep_time = 0

\* ======================================================================
\* C8  _create_send_batches, for a positive batch size B and n recipients:
\* no yielded batch is empty or longer than B; a batch shorter than B is the
\* last one and ends the list; the batches yielded so far, concatenated, are
\* the recipients consumed so far in input order; and once the generator is
\* exhausted it has yielded ceil(n/B) batches (none when n = 0), the last
\* one holding n mod B requests (B when n mod B = 0).
C8_BatchPlan ==
    batch_size > 0 =>
      LET n == Len(chat_ids)
          B == batch_size
          flat == Flatten(yielded)
      IN  /\ \A k \in 1..Len(yielded) :
                /\ Len(yielded[k]) >= 1
                /\ Len(yielded[k]) <= B
                /\ Len(yielded[k]) < B => (k = Len(yielded) /\ gen_pos = n + 1)
          /\ Len(flat) = gen_pos - 1
          /\ \A i \in 1..Len(flat) : flat[i] = Request(i)
          /\ pc = "done" =>
                /\ Len(yielded) = (n + B - 1) \div B
                /\ [i \in 1..Len(flat) |-> flat[i].chat_id] = chat_ids
                /\ n > 0 => Len(yielded[Len(yielded)]) =
                                 (IF n % B = 0 THEN B ELSE n % B)

\* the generator is exhausted after a full batch and a shorter last batch
C8_Witness ==
    /\ pc = "done"
    /\ batch_size > 1
    /\ Len(yielded) >= 2
    /\ Len(yielded[Len(yielded)]) < batch_size
    /\ \E i, j \in Positions : i < j /\ chat_ids[i] = chat_ids[j]

\* ======================================================================
\* C11  A run on a fresh sender in which no attempt is rate-limited returns
\* delivered = the number of recipients whose send succeeded and
\* notDelivered = the number whose send failed permanently.
C11_TallyWithoutRateLimit ==
    (/\ ValidConfig
     /\ pc = "done"
     /\ \A i \in Positions : outcomes[i] \in {<<"Delivered">>, <<"PermanentFailure">>})
      => /\ result[1] = Cardinality({i \in Positions : outcomes[i] = <<"Delivered">>})
         /\ result[2] = Cardinality({i \in Positions :
                                        outcomes[i] = <<"PermanentFailure">>})

\* ======================================================================
\* C12  A run configured with a non-positive batch size is a hard failure:
\* it sends no request and returns no tally.  (Stated for a non-empty
\* recipient list.)
C12_BadBatchSizeFails ==
    (batch_size <= 0 /\ chat_ids # <<>>) =>
      /\ \A i \in Positions : sends[i] = 0
      /\ result = <<>>

\* ----------------------------------------------------------- fairness
\* The event loop runs every coroutine that is ready, every send attempt
\* eventually yields an outcome, and time goes on while something waits.
Fairness ==
    /\ WF_vars(NextBatch)
    /\ WF_vars(ReturnTally)
    /\ WF_vars(StartBatch)
    /\ WF_vars(Tick)
    /\ WF_vars(\E t \in inflight, resp \in Responses, sink_fails \in BOOLEAN :
                  SendMessage(t, resp, sink_fails))
    /\ WF_vars(FinishDispatch)
    /\ WF_vars(StartResend)
    /\ WF_vars(FinishResend)

\* shorter recipient lists for the specification with fairness
MaxLiveRecipients == 2

InitLive ==
    /\ chat_ids \in {[i \in 1..n |-> ChatId(i)] : n \in 0..MaxLiveRecipients}
    /\ batch_size \in BatchSizes
    /\ use_mongo \in BOOLEAN
    /\ FreshRun

SpecLive == InitLive /\ [][Next]_vars /\ Fairness

\* ======================================================================
\* C13  Whatever the outcomes of the sends, provided every attempt yields
\* one, the run never ends in an exception and eventually returns a tally.
C13_AlwaysReturnsTally ==
    /\ [](pc # "raised")
    /\ <>(pc = "done" /\ result # <<>>)

\* the run returned although a request raised, a sink write failed and a
\* recipient was rate-limited twice
C13_Witness ==
    /\ pc = "done"
    /\ use_mongo
    /\ \E i, j \in Positions :
          /\ i # j
          /\ outcomes[i] = <<"RateLimited", "RateLimited">>
          /\ outcomes[j] = <<"Delivered">> /\ counted_nd[j] = 1

\* ---------------------------------------------------------- cancellation
\* The task running run() is cancelled while it is suspended in a sleep or
\* in the await of a send: CancelledError is not an Exception, nothing in
\* the class catches it, and it leaves run() without a return value.  The
\* tasks made by as_completed() are not cancelled with their awaiter.
Cancel ==
    /\ \/ pc = "sleep" /\ timer > 0
       \/ pc = "pause"
       \/ pc \in {"dispatch", "retry"} /\ inflight # {}
    /\ pc' = "cancelled"
    /\ timer' = 0
    /\ UNCHANGED <<cfg, data, rate_limited_messages, global_retry_after,
                   gen_pos, batch, batch_index, total_delivered,
                   total_not_delivered, sleep_time, delivered,
                   non_429_failures, inflight, elapsed, result, hist>>

NextCancel ==
    \/ Next
    \/ Cancel

SpecCancel == InitLive /\ [][NextCancel]_vars

\* ======================================================================
\* C14  When the run is cancelled at a suspension point it reports a tally
\* of the outcomes observed so far, and from then on no abandoned request
\* changes the tally, the pending list or maxRetryAfter, and no batch or
\* retry is started.
C14_CancelAbandonsCleanly ==
    /\ [](pc = "cancelled" =>
            /\ result # <<>>
            /\ result[1] = SumOver(counted_d, Positions))
    /\ [][pc = "cancelled" =>
            /\ pc' = "cancelled"
            /\ UNCHANGED <<rate_limited_messages, global_retry_after,
                           total_delivered, total_not_delivered, sends>>]_vars

\* ======================================================================
\* C15  RateLimitState is cleared after each retry cycle: whenever a batch
\* is about to be asked for or dispatched, and when the run has returned,
\* the pending list is empty and maxRetryAfter is 0.
C15_RateLimitStateCleared ==
    (ValidConfig /\ pc \in {"loop", "sleep", "done"}) =>
      /\ rate_limited_messages = <<>>
      /\ global_retry_after = 0

\* ======================================================================
\* C16  The rate-limit pause is a hard pause: it begins only when every
\* send of the triggering batch has its outcome, and during the pause and
\* during the pacing sleep no send of any batch or retry is in flight.
C16_HardPause ==
    /\ pc \in {"pause", "sleep"} => inflight = {}
    /\ pc = "pause" =>
          \A k \in 1..Len(batch) : Len(outcomes[batch[k].pos]) >= 1
    /\ pc \in {"pause", "sleep"} =>
          \A i \in Positions : Len(outcomes[i]) = sends[i]

\* the pipeline is pausing after a batch of two sends, one of them
\* rate-limited and the other delivered
C16_Witness ==
    /\ pc = "pause"
    /\ timer > 0
    /\ Len(batch) = 2
    /\ outcomes[batch[1].pos] = <<"RateLimited">>
    /\ outcomes[batch[2].pos] = <<"Delivered">>

\* ======================================================================
\* C17  The shared payload is never modified: it stays what _prepare_data
\* returned, and every request (in the batch, in flight, pending retry) is
\* that payload plus its recipient's chat_id.
C17_PayloadUntouched ==
    /\ data = data0
    /\ "chat_id" \notin DOMAIN data
    /\ \A r \in Range(batch) \cup Range(rate_limited_messages)
                \cup {t.req : t \in inflight} :
          /\ r.payload = data0
          /\ r.chat_id = chat_ids[r.pos]

\* a retry cycle is in flight in the second batch
C17_Witness ==
    /\ pc = "retry"
    /\ batch_index >= 2
    /\ inflight # {}
    /\ \E i \in Positions : Len(outcomes[i]) = 2

\* ======================================================================
\* C18  With a positive batch size the number of sends in flight never
\* exceeds batch_size, retry cycles included.
C18_InflightWithinBatchSize ==
    ValidConfig => Cardinality(inflight) <= batch_size

\* ------------------------------------------------- several runs in a row
MaxRuns == 2
MaxReuseRecipients == 1

InitReuse ==
    /\ chat_ids \in {[i \in 1..n |-> ChatId(i)] : n \in 0..MaxReuseRecipients}
    /\ batch_size \in BatchSizes
    /\ use_mongo \in BOOLEAN
    /\ FreshRun

\* run() is called again on the same TelegramSender after the previous call
\* returned: the payload is prepared anew and _execute_batches starts with
\* fresh locals; __init__ is not run again, so self._rate_limited_messages
\* and self._global_retry_after are what the previous run left.
RunAgain ==
    /\ pc = "done"
    /\ run_no < MaxRuns
    /\ run_no' = run_no + 1
    /\ chat_ids' \in {[i \in 1..n |-> ChatId(i)] : n \in 0..MaxReuseRecipients}
    /\ data' = Payload
    /\ gen_pos' = 1
    /\ batch' = <<>>
    /\ batch_index' = 0
    /\ total_delivered' = 0
    /\ total_not_delivered' = 0
    /\ sleep_time' = 0
    /\ delivered' = 0
    /\ non_429_failures' = 0
    /\ pc' = "loop"
    /\ timer' = 0
    /\ elapsed' = 0
    /\ result' = <<>>
    /\ yielded' = <<>>
    /\ sends' = [i \in 1..Len(chat_ids') |-> 0]
    /\ outcomes' = [i \in 1..Len(chat_ids') |-> <<>>]
    /\ counted_d' = [i \in 1..Len(chat_ids') |-> 0]
    /\ counted_nd' = [i \in 1..Len(chat_ids') |-> 0]
    /\ own_rl' = {}
    /\ own_max' = 0
    /\ pauses' = <<>>
    /\ retried' = {}
    /\ gaps' = <<>>
    /\ UNCHANGED <<batch_size, use_mongo, data0, rate_limited_messages,
                   global_retry_after, inflight>>

NextReuse ==
    \/ Next
    \/ RunAgain

SpecReuse == InitReuse /\ [][NextReuse]_vars

\* ======================================================================
\* C19  Rate-limit state is per run: a run never sends a request of an
\* earlier run, never pauses without a rate-limited response of its own,
\* and its tally counts its own recipients only.
C19_RunsIndependent ==
    ValidConfig =>
      /\ \A t \in inflight : t.req.run = run_no
      /\ (pauses # <<>> /\ run_no > 1) =>
            \E i \in Positions : "RateLimited" \in Range(outcomes[i])
      /\ pc = "done" =>
            /\ result[1] = SumOver(counted_d, Positions)
            /\ result[2] = SumOver(counted_nd, Positions)
            /\ result[1] + result[2] <= Len(chat_ids)

\* ======================================================================
\* C20  When a dispatch (of a batch or of a retry cycle) has resolved,
\* delivered + non_429_failures + the number of its requests answered
\* RateLimited equals the number of requests dispatched, and each request
\* answered RateLimited has exactly one entry in the pending list.
C20_RateLimitedNotAFailure ==
    (ValidConfig /\ pc \in {"dispatch", "retry"} /\ inflight = {}) =>
      LET dispatched == IF pc = "dispatch" THEN Range(batch) ELSE retried
          limited == {i \in Positions :
                        /\ Request(i) \in dispatched
                        /\ outcomes[i] # <<>>
                        /\ outcomes[i][Len(outcomes[i])] = "RateLimited"}
      IN  /\ delivered + non_429_failures + Cardinality(limited)
                = Cardinality(dispatched)
          /\ \A i \in limited :
                Cardinality({k \in 1..Len(rate_limited_messages) :
                               rate_limited_messages[k] = Request(i)}) = 1
====
